---- MODULE Spec2Model ----
(***************************************************************************)
(* Model of the RayTracer application layer (ExampleLayer in               *)
(* RayTracer/src/WalnutApp.cpp) driving the Renderer and the Camera.       *)
(*                                                                         *)
(* ExampleLayer is translated from WalnutApp.cpp.  Renderer.h / Camera.h   *)
(* are not part of the available sources; the Renderer and Camera          *)
(* operators below follow the contracts of spec.md (sections 3, 4, 6, 7).  *)
(*                                                                         *)
(* Numbers: lengths in tenths (Position, Radius, Albedo), Roughness and    *)
(* Metallic in twentieths (the DragFloat step 0.05).                       *)
(* The "Advanced Stats" panel (lines 126-280) only reads m_LastRenderTime  *)
(* and its own statics; it touches no Renderer/Camera/Scene state and is   *)
(* left out, as is the timer value itself.                                 *)
(***************************************************************************)
EXTENDS Integers, Sequences, FiniteSets, TLC

\* ---------------------------------------------------------------- bounds
MaxFrameIndex == 3   \* render passes stop being started once frameIndex reaches this
MaxEdited == 1       \* a Scene field is dragged at most this far from the constructor's value
MaxCamPos == 1       \* the camera moves / turns at most this far from its start, in total

\* the content-region sizes the layout reports: collapsed, collapsed in one
\* direction, and two sizes of different shape
ViewportSizes == { <<0, 0>>, <<2, 0>>, <<1, 2>>, <<2, 1>> }

\* ---------------------------------------------------------------- Scene
\* ExampleLayer::ExampleLayer, lines 27-56
InitScene ==
  [ Spheres   |-> << [Position |-> <<0, 0, 0>>,     Radius |-> 10,   MaterialIndex |-> 0],
                     [Position |-> <<0, -1010, 0>>, Radius |-> 1000, MaterialIndex |-> 1] >>,
    Materials |-> << [Albedo |-> <<10, 0, 10>>, Roughness |-> 0, Metallic |-> 0],
                     [Albedo |-> <<2, 3, 10>>,  Roughness |-> 2, Metallic |-> 0] >> ]

Clamp(v, lo, hi) == IF v < lo THEN lo ELSE IF v > hi THEN hi ELSE v
Abs(x) == IF x < 0 THEN -x ELSE x

\* how far (in drag steps, summed over all fields) a Scene is from the
\* constructor's Scene, and how many of its Spheres / Materials differ
Vec3Dist(a, b) == Abs(a[1] - b[1]) + Abs(a[2] - b[2]) + Abs(a[3] - b[3])
SphereDist(a, b) ==
  Vec3Dist(a.Position, b.Position) + Abs(a.Radius - b.Radius)
    + Abs(a.MaterialIndex - b.MaterialIndex)
MaterialDist(a, b) ==
  Vec3Dist(a.Albedo, b.Albedo) + Abs(a.Roughness - b.Roughness)
    + Abs(a.Metallic - b.Metallic)
Edited(s) ==
    SphereDist(s.Spheres[1], InitScene.Spheres[1])
  + SphereDist(s.Spheres[2], InitScene.Spheres[2])
  + MaterialDist(s.Materials[1], InitScene.Materials[1])
  + MaterialDist(s.Materials[2], InitScene.Materials[2])

B2N(b) == IF b THEN 1 ELSE 0
FieldsEdited(s) ==
    B2N(s.Spheres[1].Position[1] # InitScene.Spheres[1].Position[1])
  + B2N(s.Spheres[1].Position[2] # InitScene.Spheres[1].Position[2])
  + B2N(s.Spheres[1].Position[3] # InitScene.Spheres[1].Position[3])
  + B2N(s.Spheres[1].Radius # InitScene.Spheres[1].Radius)
  + B2N(s.Spheres[1].MaterialIndex # InitScene.Spheres[1].MaterialIndex)
  + B2N(s.Spheres[2].Position[1] # InitScene.Spheres[2].Position[1])
  + B2N(s.Spheres[2].Position[2] # InitScene.Spheres[2].Position[2])
  + B2N(s.Spheres[2].Position[3] # InitScene.Spheres[2].Position[3])
  + B2N(s.Spheres[2].Radius # InitScene.Spheres[2].Radius)
  + B2N(s.Spheres[2].MaterialIndex # InitScene.Spheres[2].MaterialIndex)
  + B2N(s.Materials[1].Albedo[1] # InitScene.Materials[1].Albedo[1])
  + B2N(s.Materials[1].Albedo[2] # InitScene.Materials[1].Albedo[2])
  + B2N(s.Materials[1].Albedo[3] # InitScene.Materials[1].Albedo[3])
  + B2N(s.Materials[1].Roughness # InitScene.Materials[1].Roughness)
  + B2N(s.Materials[1].Metallic # InitScene.Materials[1].Metallic)
  + B2N(s.Materials[2].Albedo[1] # InitScene.Materials[2].Albedo[1])
  + B2N(s.Materials[2].Albedo[2] # InitScene.Materials[2].Albedo[2])
  + B2N(s.Materials[2].Albedo[3] # InitScene.Materials[2].Albedo[3])
  + B2N(s.Materials[2].Roughness # InitScene.Materials[2].Roughness)
  + B2N(s.Materials[2].Metallic # InitScene.Materials[2].Metallic)

\* the Scenes the model lets the panel produce: one field at a time is away
\* from the constructor's value, by at most MaxEdited drag steps
WithinEditBound(s) == FieldsEdited(s) <= 1 /\ Edited(s) <= MaxEdited

\* one drag step in either direction
DragSteps == {-1, 1}

\* The values one frame of dragging can give a Sphere (lines 87-90): one
\* widget is active at a time; DragInt clamps to [0, Materials.size()-1].
SphereEdits(sp, nMat) ==
     { [sp EXCEPT !.Position[k] = @ + d] : k \in 1..3, d \in DragSteps }
  \cup { [sp EXCEPT !.Radius = @ + d] : d \in DragSteps }
  \cup { [sp EXCEPT !.MaterialIndex = Clamp(@ + d, 0, nMat - 1)] : d \in DragSteps }

\* The values one frame of editing can give a Material (lines 100-103):
\* ColorEdit3 keeps components in [0,1], DragFloat clamps to [0,1].
MaterialEdits(m) ==
     { [m EXCEPT !.Albedo[k] = Clamp(@ + d, 0, 10)] : k \in 1..3, d \in DragSteps }
  \cup { [m EXCEPT !.Roughness = Clamp(@ + d, 0, 20)] : d \in DragSteps }
  \cup { [m EXCEPT !.Metallic = Clamp(@ + d, 0, 20)] : d \in DragSteps }

\* ---------------------------------------------------------------- Renderer (spec.md 3, 4.3, 7)
\* One accumulationBuffer slot: n = number of samples summed into it since
\* it was last zeroed or overwritten; old = how many of those samples were
\* traced against a Scene older than the current one.
ZeroSlot == [n |-> 0, old |-> 0]
\* One finalImage slot: the resolved value accumulationBuffer/frameIndex,
\* kept as the pair (samples in the sum, divisor used).
BlankPixel == [samples |-> 0, divisor |-> 0]

ZeroBuffer(len) == [i \in 1..len |-> ZeroSlot]
BlankImage(len) == [i \in 1..len |-> BlankPixel]

InitRenderer(acc) ==
  [ width |-> 0, height |-> 0, frameIndex |-> 1,
    settings |-> [accumulate |-> acc],
    accumulationBuffer |-> << >>, finalImage |-> << >> ]

\* resetFrameIndex(): frameIndex = 1 and zero the accumulationBuffer
ResetFrameIndex(r) ==
  [r EXCEPT !.frameIndex = 1,
            !.accumulationBuffer = ZeroBuffer(Len(r.accumulationBuffer))]

\* variant: onResize without the unchanged-dimensions early return
RendererOnResizeAlways(r, w, h) ==
  IF w = 0 \/ h = 0 THEN r
  ELSE ResetFrameIndex([r EXCEPT !.width = w, !.height = h,
                                 !.accumulationBuffer = ZeroBuffer(w * h),
                                 !.finalImage = BlankImage(w * h)])

\* onResize(width, height): zero dimensions and unchanged dimensions are
\* no-ops; otherwise reallocate both buffers and resetFrameIndex().
RendererOnResize(r, w, h) ==
  IF w = 0 \/ h = 0 THEN r
  ELSE IF w = r.width /\ h = r.height /\ Len(r.accumulationBuffer) = w * h THEN r
  ELSE ResetFrameIndex([r EXCEPT !.width = w, !.height = h,
                                 !.accumulationBuffer = ZeroBuffer(w * h),
                                 !.finalImage = BlankImage(w * h)])

\* variant: a non-accumulating render that overwrites the slots but leaves
\* frameIndex where it was
RendererRenderUnpinned(r) ==
  LET acc  == r.settings.accumulate
      buf  == [i \in 1..Len(r.accumulationBuffer) |->
                 IF acc THEN [r.accumulationBuffer[i] EXCEPT !.n = @ + 1]
                        ELSE [n |-> 1, old |-> 0]]
      img  == [i \in 1..Len(r.finalImage) |->
                 [samples |-> buf[i].n, divisor |-> r.frameIndex]]
  IN [r EXCEPT !.accumulationBuffer = buf,
               !.finalImage = img,
               !.frameIndex = IF acc THEN @ + 1 ELSE @]

\* render(scene, camera): one sample per pixel.  Accumulating: the sample
\* is added to the slot and resolved with divisor frameIndex, then
\* frameIndex + 1.  Not accumulating: the slot is overwritten, frameIndex
\* is pinned at 1 (so the divisor is 1).
RendererRender(r) ==
  LET acc  == r.settings.accumulate
      fi   == IF acc THEN r.frameIndex ELSE 1
      buf  == [i \in 1..Len(r.accumulationBuffer) |->
                 IF acc THEN [r.accumulationBuffer[i] EXCEPT !.n = @ + 1]
                        ELSE [n |-> 1, old |-> 0]]
      img  == [i \in 1..Len(r.finalImage) |-> [samples |-> buf[i].n, divisor |-> fi]]
  IN [r EXCEPT !.accumulationBuffer = buf,
               !.finalImage = img,
               !.frameIndex = IF acc THEN fi + 1 ELSE 1]

\* the Scene was edited: every sample held in the buffer now predates the
\* current Scene (the Renderer itself is not told, line 87-103)
MarkStale(r) ==
  [r EXCEPT !.accumulationBuffer =
      [i \in 1..Len(r.accumulationBuffer) |->
          [r.accumulationBuffer[i] EXCEPT !.old = r.accumulationBuffer[i].n]]]

\* ---------------------------------------------------------------- Camera (spec.md 3, 4.1, 6)
RayDirections(w, h, fwd) == [i \in 1..(w * h) |-> <<i, fwd>>]

\* m_Camera(45.0f, 0.1f, 100.0f), line 28
InitCamera ==
  [ position |-> 0, forwardDirection |-> 0,
    viewportWidth |-> 0, viewportHeight |-> 0, rayDirections |-> << >> ]

\* update(dt, input): translate by the movement input, rotate by the look
\* input, regenerate the ray directions; the result is the camera after
\* the call together with the returned "view changed" flag
CameraOnUpdate(c, move, look) ==
  LET moved == [c EXCEPT !.position = @ + move,
                         !.forwardDirection = @ + look,
                         !.rayDirections = RayDirections(c.viewportWidth, c.viewportHeight,
                                                         c.forwardDirection + look)]
  IN [camera  |-> IF move # 0 \/ look # 0 THEN moved ELSE c,
      changed |-> (moved.position # c.position
                     \/ moved.forwardDirection # c.forwardDirection)]

\* resize(width, height): zero or unchanged dimensions are no-ops
CameraOnResize(c, w, h) ==
  IF w = 0 \/ h = 0 THEN c
  ELSE IF w = c.viewportWidth /\ h = c.viewportHeight THEN c
  ELSE [c EXCEPT !.viewportWidth = w, !.viewportHeight = h,
                 !.rayDirections = RayDirections(w, h, c.forwardDirection)]

\* ---------------------------------------------------------------- state
VARIABLES
  pc,                \* the statement of ExampleLayer the UI thread is at
  ret,               \* where the running Render() returns to
  m_Renderer, m_Camera, m_Scene,
  m_ViewportWidth, m_ViewportHeight,
  image,             \* the local of OnUIRender, line 118
  passes,            \* render passes in progress on m_Renderer
  epochRenders       \* history: render calls completed since frameIndex was
                     \* last 1 by reset / resize / toggle; -1 when a toggle
                     \* interrupted a running epoch

vars == << pc, ret, m_Renderer, m_Camera, m_Scene,
           m_ViewportWidth, m_ViewportHeight, image, passes, epochRenders >>

Init ==
  /\ pc = "OnUpdate"
  /\ ret = "none"
  /\ \E acc \in BOOLEAN : m_Renderer = InitRenderer(acc)
  /\ m_Camera = InitCamera
  /\ m_Scene = InitScene
  /\ m_ViewportWidth = 0 /\ m_ViewportHeight = 0
  /\ image = "none"
  /\ passes = 0
  /\ epochRenders = 0

\* inputs of one Camera update that keep the camera inside the bounds
CameraInputs ==
  { in \in {-1, 0, 1} \X {-1, 0, 1} :
      /\ m_Camera.position + in[1] >= 0
      /\ m_Camera.forwardDirection + in[2] >= 0
      /\ m_Camera.position + in[1] + m_Camera.forwardDirection + in[2] <= MaxCamPos }

\* ---------------------------------------------------------------- ExampleLayer
\* variant: OnUpdate that resets whatever Camera.OnUpdate returned
OnUpdateAlwaysResets(move, look) ==
  /\ pc = "OnUpdate"
  /\ m_Camera' = CameraOnUpdate(m_Camera, move, look).camera
  /\ m_Renderer' = ResetFrameIndex(m_Renderer)
  /\ epochRenders' = 0
  /\ pc' = "RenderButton"
  /\ UNCHANGED << ret, m_Scene, m_ViewportWidth, m_ViewportHeight, image, passes >>

\* OnUpdate, lines 58-63
OnUpdate(move, look) ==
  /\ pc = "OnUpdate"
  /\ LET res == CameraOnUpdate(m_Camera, move, look) IN
       /\ m_Camera' = res.camera
       /\ IF res.changed
            THEN /\ m_Renderer' = ResetFrameIndex(m_Renderer)
                 /\ epochRenders' = 0
            ELSE UNCHANGED << m_Renderer, epochRenders >>
  /\ pc' = "RenderButton"
  /\ UNCHANGED << ret, m_Scene, m_ViewportWidth, m_ViewportHeight, image, passes >>

\* OnUIRender, lines 71-73: if (ImGui::Button("Render")) Render();
RenderButton(pressed) ==
  /\ pc = "RenderButton"
  /\ IF pressed
       THEN pc' = "Render_OnResize" /\ ret' = "Checkbox"
       ELSE pc' = "Checkbox" /\ UNCHANGED ret
  /\ UNCHANGED << m_Renderer, m_Camera, m_Scene, m_ViewportWidth, m_ViewportHeight,
                  image, passes, epochRenders >>

\* OnUIRender, line 75: ImGui::Checkbox("Accumulate", &GetSettings().Accumulate)
Checkbox(clicked) ==
  /\ pc = "Checkbox"
  /\ IF clicked
       THEN /\ m_Renderer' = [m_Renderer EXCEPT !.settings.accumulate = ~@]
            /\ epochRenders' = IF m_Renderer.frameIndex = 1 THEN 0 ELSE -1
       ELSE UNCHANGED << m_Renderer, epochRenders >>
  /\ pc' = "ResetButton"
  /\ UNCHANGED << ret, m_Camera, m_Scene, m_ViewportWidth, m_ViewportHeight, image, passes >>

\* OnUIRender, lines 77-79: if (ImGui::Button("Reset")) ResetFrameIndex();
ResetButton(pressed) ==
  /\ pc = "ResetButton"
  /\ IF pressed
       THEN /\ m_Renderer' = ResetFrameIndex(m_Renderer)
            /\ epochRenders' = 0
       ELSE UNCHANGED << m_Renderer, epochRenders >>
  /\ pc' = "SpheresPanel"
  /\ UNCHANGED << ret, m_Camera, m_Scene, m_ViewportWidth, m_ViewportHeight, image, passes >>

\* OnUIRender, lines 84-95: the per-sphere widgets write straight into
\* m_Scene.Spheres[i]; nothing else is called
SpheresPanel ==
  /\ pc = "SpheresPanel"
  /\ \/ UNCHANGED << m_Scene, m_Renderer >>
     \/ \E i \in 1..Len(m_Scene.Spheres) :
          \E sp \in SphereEdits(m_Scene.Spheres[i], Len(m_Scene.Materials)) :
            /\ sp # m_Scene.Spheres[i]
            /\ WithinEditBound([m_Scene EXCEPT !.Spheres[i] = sp])
            /\ m_Scene' = [m_Scene EXCEPT !.Spheres[i] = sp]
            /\ m_Renderer' = MarkStale(m_Renderer)
  /\ pc' = "MaterialsPanel"
  /\ UNCHANGED << ret, m_Camera, m_ViewportWidth, m_ViewportHeight, image, passes,
                  epochRenders >>

\* OnUIRender, lines 97-108: the per-material widgets write straight into
\* m_Scene.Materials[i]; nothing else is called
MaterialsPanel ==
  /\ pc = "MaterialsPanel"
  /\ \/ UNCHANGED << m_Scene, m_Renderer >>
     \/ \E i \in 1..Len(m_Scene.Materials) :
          \E m \in MaterialEdits(m_Scene.Materials[i]) :
            /\ m # m_Scene.Materials[i]
            /\ WithinEditBound([m_Scene EXCEPT !.Materials[i] = m])
            /\ m_Scene' = [m_Scene EXCEPT !.Materials[i] = m]
            /\ m_Renderer' = MarkStale(m_Renderer)
  /\ pc' = "Viewport"
  /\ UNCHANGED << ret, m_Camera, m_ViewportWidth, m_ViewportHeight, image, passes,
                  epochRenders >>

\* OnUIRender, lines 115-116: the content region of the Viewport window
Viewport(w, h) ==
  /\ pc = "Viewport"
  /\ m_ViewportWidth' = w
  /\ m_ViewportHeight' = h
  /\ pc' = "GetFinalImage"
  /\ UNCHANGED << ret, m_Renderer, m_Camera, m_Scene, image, passes, epochRenders >>

\* OnUIRender, line 118: auto image = m_Renderer.GetFinalImage();
\* null while the Renderer has no buffers
GetFinalImage ==
  /\ pc = "GetFinalImage"
  /\ image' = IF Len(m_Renderer.finalImage) = 0 THEN "null" ELSE "valid"
  /\ pc' = "Image"
  /\ UNCHANGED << ret, m_Renderer, m_Camera, m_Scene, m_ViewportWidth, m_ViewportHeight,
                  passes, epochRenders >>

\* OnUIRender, lines 119-121: if (image) ImGui::Image(image->...)
Image ==
  /\ pc = "Image"
  /\ pc' = "FinalRender"
  /\ UNCHANGED << ret, m_Renderer, m_Camera, m_Scene, m_ViewportWidth, m_ViewportHeight,
                  image, passes, epochRenders >>

\* OnUIRender, line 285: Render();
FinalRender ==
  /\ pc = "FinalRender"
  /\ pc' = "Render_OnResize"
  /\ ret' = "Return"
  /\ UNCHANGED << m_Renderer, m_Camera, m_Scene, m_ViewportWidth, m_ViewportHeight,
                  image, passes, epochRenders >>

\* variant: the handle is kept in a member instead of a local
ReturnKeepsImage ==
  /\ pc = "Return"
  /\ pc' = "OnUpdate"
  /\ UNCHANGED << ret, m_Renderer, m_Camera, m_Scene, m_ViewportWidth, m_ViewportHeight,
                  image, passes, epochRenders >>

\* OnUIRender, line 287: the function returns, its local `image` dies
Return ==
  /\ pc = "Return"
  /\ image' = "none"
  /\ pc' = "OnUpdate"
  /\ UNCHANGED << ret, m_Renderer, m_Camera, m_Scene, m_ViewportWidth, m_ViewportHeight,
                  passes, epochRenders >>

\* the resize Render() asks for is one that changes the buffers
ResizeChanges ==
  /\ m_ViewportWidth # 0 /\ m_ViewportHeight # 0
  /\ (m_ViewportWidth # m_Renderer.width \/ m_ViewportHeight # m_Renderer.height)

\* variant: Render() without the OnResize call
RenderOnResizeSkipped ==
  /\ pc = "Render_OnResize"
  /\ pc' = "Render_CameraOnResize"
  /\ UNCHANGED << ret, m_Renderer, m_Camera, m_Scene, m_ViewportWidth, m_ViewportHeight,
                  image, passes, epochRenders >>

\* variant: Render() passing height and width in the wrong order
RenderOnResizeSwapped ==
  /\ pc = "Render_OnResize"
  /\ m_Renderer' = RendererOnResize(m_Renderer, m_ViewportHeight, m_ViewportWidth)
  /\ epochRenders' = IF m_Renderer' # m_Renderer THEN 0 ELSE epochRenders
  /\ pc' = "Render_CameraOnResize"
  /\ UNCHANGED << ret, m_Camera, m_Scene, m_ViewportWidth, m_ViewportHeight, image, passes >>

\* Render, line 293: m_Renderer.OnResize(m_ViewportWidth, m_ViewportHeight);
RenderOnResize ==
  /\ pc = "Render_OnResize"
  /\ m_Renderer' = RendererOnResize(m_Renderer, m_ViewportWidth, m_ViewportHeight)
  /\ epochRenders' = IF ResizeChanges THEN 0 ELSE epochRenders
  /\ pc' = "Render_CameraOnResize"
  /\ UNCHANGED << ret, m_Camera, m_Scene, m_ViewportWidth, m_ViewportHeight, image, passes >>

\* variant: Render() without the Camera.OnResize call
RenderCameraOnResizeSkipped ==
  /\ pc = "Render_CameraOnResize"
  /\ pc' = "Render_Render"
  /\ UNCHANGED << ret, m_Renderer, m_Camera, m_Scene, m_ViewportWidth, m_ViewportHeight,
                  image, passes, epochRenders >>

\* Render, line 294: m_Camera.OnResize(m_ViewportWidth, m_ViewportHeight);
RenderCameraOnResize ==
  /\ pc = "Render_CameraOnResize"
  /\ m_Camera' = CameraOnResize(m_Camera, m_ViewportWidth, m_ViewportHeight)
  /\ pc' = "Render_Render"
  /\ UNCHANGED << ret, m_Renderer, m_Scene, m_ViewportWidth, m_ViewportHeight, image,
                  passes, epochRenders >>

\* variant: Render() hands the pass to a worker and returns at once
RenderCallAsync ==
  /\ pc = "Render_Render"
  /\ m_Renderer.frameIndex < MaxFrameIndex
  /\ passes' = passes + 1
  /\ image' = IF image = "valid" THEN "superseded" ELSE image
  /\ pc' = ret
  /\ ret' = "none"
  /\ UNCHANGED << m_Renderer, m_Camera, m_Scene, m_ViewportWidth, m_ViewportHeight,
                  epochRenders >>

\* Render, line 295: m_Renderer.Render(m_Scene, m_Camera) is entered; the
\* handle of the previous resolved image stops being valid
RenderCall ==
  /\ pc = "Render_Render"
  /\ m_Renderer.frameIndex < MaxFrameIndex
  /\ passes' = passes + 1
  /\ image' = IF image = "valid" THEN "superseded" ELSE image
  /\ pc' = "Render_Pass"
  /\ UNCHANGED << ret, m_Renderer, m_Camera, m_Scene, m_ViewportWidth, m_ViewportHeight,
                  epochRenders >>

\* Render, lines 295-297: the pass runs to completion and Render() returns
RenderPass ==
  /\ pc = "Render_Pass"
  /\ m_Renderer' = RendererRender(m_Renderer)
  /\ passes' = passes - 1
  /\ epochRenders' = IF ~m_Renderer.settings.accumulate THEN 0
                     ELSE IF epochRenders >= 0 THEN epochRenders + 1 ELSE -1
  /\ pc' = ret
  /\ ret' = "none"
  /\ UNCHANGED << m_Camera, m_Scene, m_ViewportWidth, m_ViewportHeight, image >>

Next ==
  \/ \E in \in CameraInputs : OnUpdate(in[1], in[2])
  \/ \E pressed \in BOOLEAN : RenderButton(pressed)
  \/ \E clicked \in BOOLEAN : Checkbox(clicked)
  \/ \E pressed \in BOOLEAN : ResetButton(pressed)
  \/ SpheresPanel
  \/ MaterialsPanel
  \/ \E size \in ViewportSizes : Viewport(size[1], size[2])
  \/ GetFinalImage
  \/ Image
  \/ FinalRender
  \/ Return
  \/ RenderOnResize
  \/ RenderCameraOnResize
  \/ RenderCall
  \/ RenderPass

Spec == Init /\ [][Next]_vars

\* ---------------------------------------------------------------- properties
Sized == m_Renderer.width > 0 /\ m_Renderer.height > 0
Slots == 1..Len(m_Renderer.accumulationBuffer)
AllZero(buf) == \A i \in 1..Len(buf) : buf[i] = ZeroSlot

\* C1: on a sized Renderer with accumulate on, after n render calls since
\* frameIndex was last 1 (no reset, changed-dimension resize or toggle in
\* between) frameIndex = n + 1 - also with the OnResize calls Render() makes
\* before every pass.
C1_FrameIndexCountsRenders ==
  (Sized /\ m_Renderer.settings.accumulate /\ epochRenders >= 0)
    => m_Renderer.frameIndex = epochRenders + 1

\* two Render() calls of the application in one epoch: frameIndex 3
C1_Witness ==
  /\ Sized /\ m_Renderer.settings.accumulate
  /\ epochRenders = 2 /\ m_Renderer.frameIndex = 3
  /\ pc = "Return"

\* C2: the OnResize of Render() with a viewport that is nonzero and differs
\* from the buffer dimensions leaves the Renderer with the new dimensions,
\* frameIndex = 1 and a zeroed accumulationBuffer of the new size.
C2_ResizeInvalidates ==
  [][ (pc = "Render_OnResize" /\ ResizeChanges)
        => /\ m_Renderer'.width = m_ViewportWidth
           /\ m_Renderer'.height = m_ViewportHeight
           /\ m_Renderer'.frameIndex = 1
           /\ m_Renderer'.accumulationBuffer
                = ZeroBuffer(m_ViewportWidth * m_ViewportHeight) ]_vars

\* just after such an OnResize: the Camera still has the previous (nonzero)
\* size, at which passes were rendered; the Renderer has the new one
C2_Witness ==
  /\ pc = "Render_CameraOnResize"
  /\ m_Camera.viewportWidth > 0
  /\ m_Camera.viewportWidth # m_Renderer.width
  /\ m_Renderer.width = m_ViewportWidth /\ m_Renderer.height = m_ViewportHeight
  /\ m_Renderer.frameIndex = 1
  /\ AllZero(m_Renderer.accumulationBuffer)
  /\ Len(m_Renderer.accumulationBuffer) = m_ViewportWidth * m_ViewportHeight

\* C3: the OnResize of Render() with the current buffer dimensions, or with
\* a zero width or height, changes nothing in the Renderer.
C3_ResizeNoOp ==
  [][ (pc = "Render_OnResize" /\ ~ResizeChanges) => UNCHANGED m_Renderer ]_vars

\* an epoch that has got past its first frame, just after a zero-size OnResize
C3_Witness ==
  /\ pc = "Render_CameraOnResize"
  /\ Sized /\ m_Renderer.frameIndex > 1
  /\ m_ViewportHeight = 0
  /\ \A i \in Slots : m_Renderer.accumulationBuffer[i].n > 0

\* C4: a render pass that completes while accumulate is off leaves
\* frameIndex = 1 and every slot holding that pass's single sample.
C4_NonAccumulatingRender ==
  [][ (pc = "Render_Pass" /\ ~m_Renderer.settings.accumulate)
        => /\ m_Renderer'.frameIndex = 1
           /\ \A i \in 1..Len(m_Renderer'.accumulationBuffer) :
                m_Renderer'.accumulationBuffer[i] = [n |-> 1, old |-> 0] ]_vars

\* a pass running with accumulate switched off in the middle of an epoch
C4_Witness ==
  /\ pc = "Render_Pass" /\ passes = 1
  /\ ~m_Renderer.settings.accumulate
  /\ Sized /\ m_Renderer.frameIndex > 1
  /\ \A i \in Slots : m_Renderer.accumulationBuffer[i].n > 1

\* C5: every resolved pixel was divided by the number of samples summed
\* into its slot.
C5_DivisorIsSampleCount ==
  \A i \in 1..Len(m_Renderer.finalImage) :
    m_Renderer.finalImage[i].samples = m_Renderer.finalImage[i].divisor

\* C6: OnUpdate resets exactly when the camera's position or orientation
\* changed: then frameIndex = 1 and the accumulationBuffer is zeroed,
\* otherwise the Renderer is untouched.
C6_ResetIffCameraChanged ==
  [][ pc = "OnUpdate"
        => IF m_Camera'.position # m_Camera.position
                \/ m_Camera'.forwardDirection # m_Camera.forwardDirection
             THEN /\ m_Renderer'.frameIndex = 1
                  /\ AllZero(m_Renderer'.accumulationBuffer)
                  /\ Len(m_Renderer'.accumulationBuffer) = Len(m_Renderer.accumulationBuffer)
             ELSE UNCHANGED m_Renderer ]_vars

\* after OnUpdate moved the camera: the image still shows an accumulation
\* of several samples, the buffer is back to zero
C6_Witness ==
  /\ pc = "RenderButton"
  /\ m_Camera.position > 0
  /\ Sized /\ m_Renderer.frameIndex = 1
  /\ AllZero(m_Renderer.accumulationBuffer)
  /\ \A i \in 1..Len(m_Renderer.finalImage) : m_Renderer.finalImage[i].samples > 1

\* C7: no slot ever sums samples traced before a Scene edit with samples
\* traced after it.
C7_NoEpochAcrossSceneEdit ==
  \A i \in Slots :
    m_Renderer.accumulationBuffer[i].old \in {0, m_Renderer.accumulationBuffer[i].n}

\* C8: at most one render pass is in progress, and while one is, the only
\* thing that happens is its completion: Scene, Camera and the accumulate
\* setting stay as they are.
C8_RenderSerialized ==
  /\ [](passes \in {0, 1})
  /\ [][ passes > 0
           => /\ passes' = 0
              /\ UNCHANGED << m_Scene, m_Camera >>
              /\ m_Renderer'.settings = m_Renderer.settings ]_vars

\* the pass of a Render-button Render() is running; the frame's final
\* Render() is still to come
C8_Witness ==
  /\ passes = 1 /\ ret = "Checkbox"
  /\ Sized /\ m_Scene # InitScene /\ m_Camera.position > 0

\* C9: the handle is used only while no later render call has started, none
\* is held when a Render-button Render() runs, none survives the UI frame.
C9_HandleNotUsedAfterRender ==
  /\ (pc = "Image" => image \in {"null", "valid"})
  /\ (ret = "Checkbox" => image = "none")
  /\ (pc \in {"OnUpdate", "RenderButton"} => image = "none")

\* a valid handle at its use, in a frame whose Render button was pressed
C9_Witness ==
  /\ pc = "Image" /\ image = "valid"
  /\ m_Renderer.frameIndex > 1
  /\ \A i \in 1..Len(m_Renderer.finalImage) : m_Renderer.finalImage[i].divisor > 0

\* C10: whenever Render() enters Renderer.Render, Renderer and Camera have
\* the same dimensions and the three per-pixel buffers the same length.
C10_SameDimensionsAtRender ==
  pc = "Render_Render"
    => /\ m_Renderer.width = m_Camera.viewportWidth
       /\ m_Renderer.height = m_Camera.viewportHeight
       /\ Len(m_Renderer.accumulationBuffer) = m_Renderer.width * m_Renderer.height
       /\ Len(m_Renderer.finalImage) = Len(m_Renderer.accumulationBuffer)
       /\ Len(m_Camera.rayDirections) = Len(m_Renderer.accumulationBuffer)

\* entering Renderer.Render with the viewport collapsed after it had a size
C10_Witness ==
  /\ pc = "Render_Render"
  /\ m_ViewportWidth = 2 /\ m_ViewportHeight = 0
  /\ Sized /\ Len(m_Camera.rayDirections) = 2

====
